---- MODULE Spec2Model ----
(***************************************************************************)
(* One relay session of backend/main.py: GeminiChatbot.run with its two    *)
(* forwarding tasks browser_to_gemini and gemini_to_browser, the order     *)
(* sink save_order, and the two transports as the environment.             *)
(*                                                                         *)
(* A task step runs from one suspension point (an await that really        *)
(* waits: next frame, send) to the next one, as an asyncio task does.      *)
(* The logs upLog, cliLog, saveLog, cRecv and uRecv record the calls the   *)
(* program makes on its collaborators, in order.                           *)
(***************************************************************************)
EXTENDS Integers, Sequences, FiniteSets, TLC

\* ------------------------------------------------------------------ bounds
\* frames the two tasks take from their inputs in one session, together
MaxFrames == 2
\* the sessions served side by side, and the frames they relay altogether
Sessions == {1, 2}
MaxRelayed == 2

\* ------------------------------------------------------- JSON-like values
Absent == [t |-> "absent", n |-> 0, s |-> ""]
IntV(n) == [t |-> "int", n |-> n, s |-> ""]
\* a float is kept in tenths: FloatV(35) is 3.5
FloatV(tenths) == [t |-> "float", n |-> tenths, s |-> ""]
StrV(s) == [t |-> "str", n |-> 0, s |-> s]

\* the decimal literals used by the inputs: value in tenths, and whether the
\* literal is an integer literal (the only strings int() accepts)
NumericStrings == {"2", "3.5"}
StrTenths(s) == IF s = "2" THEN 20 ELSE 35
StrIsIntLiteral(s) == s = "2"

\* truncation toward zero of a value in tenths
TruncTenths(x) == IF x >= 0 THEN x \div 10 ELSE -((-x) \div 10)

\* int(v) of Python: [ok, v]; a missing key, a non-numeric text or a text
\* with a fraction raises
PyInt(v) ==
  CASE v.t = "int" -> [ok |-> TRUE, v |-> v.n]
    [] v.t = "float" -> [ok |-> TRUE, v |-> TruncTenths(v.n)]
    [] v.t = "str" -> IF v.s \in NumericStrings /\ StrIsIntLiteral(v.s)
                        THEN [ok |-> TRUE, v |-> StrTenths(v.s) \div 10]
                        ELSE [ok |-> FALSE, v |-> 0]
    [] OTHER -> [ok |-> FALSE, v |-> 0]

\* float(v) of Python, result in tenths
PyFloat(v) ==
  CASE v.t = "int" -> [ok |-> TRUE, v |-> v.n * 10]
    [] v.t = "float" -> [ok |-> TRUE, v |-> v.n]
    [] v.t = "str" -> IF v.s \in NumericStrings
                        THEN [ok |-> TRUE, v |-> StrTenths(v.s)]
                        ELSE [ok |-> FALSE, v |-> 0]
    [] OTHER -> [ok |-> FALSE, v |-> 0]

\* ------------------------------------------------------------ client frames
\* a text frame from the browser: json says whether json.loads accepts it
\* as an object, type is data.get("type"), audio is data["audio"]
ClientFrame(json, type, audio) == [json |-> json, type |-> type, audio |-> audio]

AudioPayloads == {"AAA=", "BBB="}

ClientFrames ==
  { ClientFrame(TRUE, "audio", StrV(p)) : p \in AudioPayloads }
    \cup { ClientFrame(TRUE, "audio", Absent),
           ClientFrame(TRUE, "ping", Absent),
           ClientFrame(TRUE, "none", StrV("AAA=")),
           ClientFrame(FALSE, "none", Absent) }

\* ---------------------------------------------------------- upstream frames
FunctionCall(name, id, item, quantity, price) ==
  [name |-> name, id |-> id,
   args |-> [item |-> item, quantity |-> quantity, price |-> price]]

\* a part of modelTurn.parts: inline says whether it has "inlineData"
Part(inline, data) == [inline |-> inline, data |-> data]

UpFrame(json, hasToolCall, calls, hasServerContent, parts) ==
  [json |-> json, hasToolCall |-> hasToolCall, functionCalls |-> calls,
   hasServerContent |-> hasServerContent, parts |-> parts]

OrderBiryani == FunctionCall("place_order", "c1", StrV("Biryani"), IntV(2), FloatV(3500))
OrderNaan == FunctionCall("place_order", "c2", StrV("Naan"), StrV("2"), StrV("3.5"))
OrderNoPrice == FunctionCall("place_order", "c3", StrV("Chai"), IntV(1), Absent)
OrderBadQuantity == FunctionCall("place_order", "c4", StrV("Chai"), StrV("two"), IntV(50))
OtherCall == FunctionCall("get_menu", "c5", Absent, Absent, Absent)
\* a call whose numbers int() and float() accept: quantity 0, price -5.0
OrderNonPositive == FunctionCall("place_order", "c6", StrV("Chai"), IntV(0), FloatV(-50))

UpFrames ==
  { UpFrame(TRUE, TRUE, <<OtherCall, OrderNaan>>, FALSE, <<>>),
    UpFrame(TRUE, TRUE, <<OrderBadQuantity, OrderBiryani>>, FALSE, <<>>),
    UpFrame(TRUE, TRUE, <<OrderNonPositive, OrderNoPrice>>, TRUE,
            <<Part(TRUE, StrV("P1"))>>),
    UpFrame(TRUE, FALSE, <<>>, TRUE,
            <<Part(TRUE, StrV("P1")), Part(FALSE, Absent), Part(TRUE, StrV("P2"))>>),
    UpFrame(TRUE, TRUE, <<OrderBiryani>>, TRUE, <<Part(TRUE, StrV("P2"))>>),
    UpFrame(TRUE, FALSE, <<>>, FALSE, <<>>),
    UpFrame(FALSE, FALSE, <<>>, FALSE, <<>>) }

\* -------------------------------------------------- frames the relay sends
SetupMsg(menu) ==
  [kind |-> "setup", chunks |-> <<>>, name |-> "", id |-> "", status |-> "", menu |-> menu]
\* as RealtimeInputMsg, reading the payload from a key the frame does not have
RealtimeInputMsgNoPayload(data) ==
  [kind |-> "realtimeInput", chunks |-> <<[mimeType |-> "audio/pcm", data |-> Absent]>>,
   name |-> "", id |-> "", status |-> "", menu |-> ""]
RealtimeInputMsg(data) ==
  [kind |-> "realtimeInput", chunks |-> <<[mimeType |-> "audio/pcm", data |-> data]>>,
   name |-> "", id |-> "", status |-> "", menu |-> ""]
\* as ToolResponseMsg, without the id of the call it answers
ToolResponseMsgNoId(id) ==
  [kind |-> "toolResponse", chunks |-> <<>>, name |-> "place_order", id |-> "",
   status |-> "success", menu |-> ""]
ToolResponseMsg(id) ==
  [kind |-> "toolResponse", chunks |-> <<>>, name |-> "place_order", id |-> id,
   status |-> "success", menu |-> ""]
ClientAudioMsg(data) == [type |-> "audio", data |-> data]

\* --------------------------------------------------- protocol translation
\* what gemini_to_browser does with one decoded frame, as the list of its
\* effects in program order: an order (save_order, then the toolResponse
\* send), a client audio send, or an exception that ends the list
Op(k, stage, i, id, item, quantity, price, data) ==
  [k |-> k, stage |-> stage, i |-> i, id |-> id, item |-> item,
   quantity |-> quantity, price |-> price, data |-> data]
RaiseOp(stage, i) == Op("raise", stage, i, "", Absent, 0, 0, Absent)

\* as CallOps, raising for a function name other than place_order
RECURSIVE CallOpsKnownOnly(_, _)
CallOpsKnownOnly(calls, i) ==
  IF i > Len(calls) THEN <<>>
  ELSE LET fc == calls[i]
           q == PyInt(fc.args.quantity)
           p == PyFloat(fc.args.price)
       IN IF fc.name = "place_order"
            THEN IF fc.args.item.t = "absent" \/ ~q.ok \/ ~p.ok
                   THEN <<RaiseOp("call", i)>>
                   ELSE <<Op("order", "call", i, fc.id, fc.args.item, q.v, p.v, Absent)>>
                          \o CallOpsKnownOnly(calls, i + 1)
            ELSE <<RaiseOp("call", i)>>

\* for fc in response["toolCall"]["functionCalls"], from the i-th on
RECURSIVE CallOps(_, _)
CallOps(calls, i) ==
  IF i > Len(calls) THEN <<>>
  ELSE LET fc == calls[i]
           q == PyInt(fc.args.quantity)
           p == PyFloat(fc.args.price)
       IN IF fc.name = "place_order"
            THEN IF fc.args.item.t = "absent" \/ ~q.ok \/ ~p.ok
                   THEN <<RaiseOp("call", i)>>
                   ELSE <<Op("order", "call", i, fc.id, fc.args.item, q.v, p.v, Absent)>>
                          \o CallOps(calls, i + 1)
            ELSE CallOps(calls, i + 1)

\* as PartOps, without the test for "inlineData": a frame for every part
RECURSIVE PartOpsEveryPart(_, _)
PartOpsEveryPart(parts, i) ==
  IF i > Len(parts) THEN <<>>
  ELSE <<Op("audio", "part", i, "", Absent, 0, 0, parts[i].data)>>
         \o PartOpsEveryPart(parts, i + 1)

\* for part in parts, from the i-th on
RECURSIVE PartOps(_, _)
PartOps(parts, i) ==
  IF i > Len(parts) THEN <<>>
  ELSE LET part == parts[i]
       IN IF part.inline
            THEN IF part.data.t = "absent"
                   THEN <<RaiseOp("part", i)>>
                   ELSE <<Op("audio", "part", i, "", Absent, 0, 0, part.data)>>
                          \o PartOps(parts, i + 1)
            ELSE PartOps(parts, i + 1)

Raises(ops) == ops # <<>> /\ ops[Len(ops)].k = "raise"

\* as FrameOps, with the two tests as exclusive branches (if / elif)
FrameOpsExclusive(response) ==
  IF response.hasToolCall THEN CallOps(response.functionCalls, 1)
  ELSE IF response.hasServerContent THEN PartOps(response.parts, 1)
  ELSE <<>>

\* the two tests of one turn: "toolCall" in response, then "serverContent"
\* in response, unless a call raised
FrameOps(response) ==
  LET c == IF response.hasToolCall THEN CallOps(response.functionCalls, 1) ELSE <<>>
  IN IF Raises(c) THEN c
     ELSE c \o (IF response.hasServerContent THEN PartOps(response.parts, 1) ELSE <<>>)

\* -------------------------------------------------------------------- state
VARIABLES
  runPc,       \* where GeminiChatbot.run is
  menuFile,    \* menu.json on disk: "valid", "absent" or "corrupt"
  menu_text,   \* the text embedded in the setup frame
  upConn,      \* the upstream connection
  cliConn,     \* the client channel
  b2g, g2b,    \* the two tasks
  gOps,        \* what gemini_to_browser still has to do with its current frame
  cRecv,       \* frames browser_to_gemini took from the client, in order
  uRecv,       \* frames gemini_to_browser took from upstream, in order
  upLog,       \* calls of send on the upstream connection, in order
  cliLog,      \* calls of send_json on the client channel, in order
  saveLog,     \* calls of save_order, in order
  orders,      \* the rows of the orders table
  closeCalls,  \* calls of client_ws.close()
  upCloseCalls, \* times the connection context closed the upstream connection
  connectCalls, \* calls of websockets.connect
  listed       \* the last answer of GET /orders

\* several sessions side by side, each a call of websocket_endpoint with its
\* own GeminiChatbot; a client channel is named by its session, an upstream
\* connection by its place in the order the connections were opened
VARIABLES
  sPc,         \* where each call of websocket_endpoint is
  client_ws,   \* self.client_ws of each chatbot, 0 for None
  ws,          \* self.ws of each chatbot, 0 for None
  opened,      \* the session that opened each upstream connection
  closedUp,    \* the upstream connections that were closed
  closedCli,   \* the client channels that were closed
  upSent,      \* frames sent on upstream connections, in order
  cliSent      \* frames sent on client channels, in order

endpoints == <<sPc, client_ws, ws, opened, closedUp, closedCli, upSent, cliSent>>

vars == <<runPc, menuFile, menu_text, upConn, cliConn, b2g, g2b, gOps, cRecv,
          uRecv, upLog, cliLog, saveLog, orders, closeCalls, upCloseCalls,
          connectCalls, listed, endpoints>>

single == <<runPc, menuFile, menu_text, upConn, cliConn, b2g, g2b, gOps, cRecv,
            uRecv, upLog, cliLog, saveLog, orders, closeCalls, upCloseCalls,
            connectCalls, listed>>

logs == <<upLog, cliLog, saveLog, orders>>

Running(t) == t = "running"
Ended(t) == t \in {"done", "failed"}

Init ==
  /\ runPc = "menu"
  /\ menuFile \in {"valid", "absent", "corrupt"}
  /\ menu_text = "Menu not available."
  /\ upConn = "none"
  /\ cliConn = "open"
  /\ b2g = "notstarted"
  /\ g2b = "notstarted"
  /\ gOps = <<>>
  /\ cRecv = <<>>
  /\ uRecv = <<>>
  /\ upLog = <<>>
  /\ cliLog = <<>>
  /\ saveLog = <<>>
  /\ orders = <<>>
  /\ closeCalls = 0
  /\ upCloseCalls = 0
  /\ connectCalls = 0
  /\ listed = <<>>
  /\ sPc = [s \in Sessions |-> "idle"]
  /\ client_ws = [s \in Sessions |-> 0]
  /\ ws = [s \in Sessions |-> 0]
  /\ opened = <<>>
  /\ closedUp = {}
  /\ closedCli = {}
  /\ upSent = <<>>
  /\ cliSent = <<>>

\* ------------------------------------------------------- GeminiChatbot.run
\* as LoadMenu, letting the exception of json.load end the session
LoadMenuFatal ==
  /\ runPc = "menu"
  /\ menu_text' = IF menuFile = "valid" THEN "menu.json" ELSE "Menu not available."
  /\ runPc' = IF menuFile = "corrupt" THEN "except" ELSE "connect"
  /\ UNCHANGED <<menuFile, endpoints, listed, connectCalls, upConn, cliConn,
                 b2g, g2b, gOps, cRecv, uRecv, logs, closeCalls, upCloseCalls>>

\* the menu is read best-effort: a missing file or one json.load rejects
\* leaves the placeholder
LoadMenu ==
  /\ runPc = "menu"
  /\ menu_text' = IF menuFile = "valid" THEN "menu.json" ELSE "Menu not available."
  /\ runPc' = "connect"
  /\ UNCHANGED <<menuFile, endpoints, listed, connectCalls, upConn, cliConn,
                 b2g, g2b, gOps, cRecv, uRecv, logs, closeCalls, upCloseCalls>>

\* as Connect, going on to the setup send after a failed connect
ConnectFailureIgnored ==
  /\ runPc = "connect"
  /\ \E connected \in BOOLEAN :
       upConn' = (IF connected THEN "open" ELSE upConn) /\ runPc' = "setup"
  /\ connectCalls' = connectCalls + 1
  /\ UNCHANGED <<menuFile, endpoints, listed, menu_text, cliConn, b2g, g2b,
                 gOps, cRecv, uRecv, logs, closeCalls, upCloseCalls>>

\* websockets.connect: the connection opens, or connect raises
Connect ==
  /\ runPc = "connect"
  /\ \E connected \in BOOLEAN :
       IF connected
         THEN upConn' = "open" /\ runPc' = "setup"
         ELSE upConn' = upConn /\ runPc' = "except"
  /\ connectCalls' = connectCalls + 1
  /\ UNCHANGED <<menuFile, endpoints, listed, menu_text, cliConn, b2g, g2b,
                 gOps, cRecv, uRecv, logs, closeCalls, upCloseCalls>>

\* as SendSetup, creating the tasks without awaiting the setup send
SendSetupNotAwaited ==
  /\ runPc = "setup"
  /\ upLog' = Append(upLog, [msg |-> SetupMsg(menu_text), ok |-> upConn = "open",
                             by |-> "run", src |-> 0, i |-> 0])
  /\ runPc' = "relaying"
  /\ b2g' = "running"
  /\ g2b' = "running"
  /\ UNCHANGED <<upConn, upCloseCalls>>
  /\ UNCHANGED <<menuFile, endpoints, listed, connectCalls, menu_text, cliConn,
                 gOps, cRecv, uRecv, cliLog, saveLog, orders, closeCalls>>

\* the setup send; when it raises, the connection context closes the
\* connection on the way to the except clause; when it returns, both tasks
\* are created and run waits for the first to complete
SendSetup ==
  /\ runPc = "setup"
  /\ upLog' = Append(upLog, [msg |-> SetupMsg(menu_text), ok |-> upConn = "open",
                             by |-> "run", src |-> 0, i |-> 0])
  /\ IF upConn = "open"
       THEN /\ runPc' = "relaying"
            /\ b2g' = "running"
            /\ g2b' = "running"
            /\ UNCHANGED <<upConn, upCloseCalls>>
       ELSE /\ runPc' = "except"
            /\ upConn' = "closed"
            /\ upCloseCalls' = upCloseCalls + 1
            /\ UNCHANGED <<b2g, g2b>>
  /\ UNCHANGED <<menuFile, endpoints, listed, connectCalls, menu_text, cliConn,
                 gOps, cRecv, uRecv, cliLog, saveLog, orders, closeCalls>>

\* as Cancel, leaving the pending task alone
CancelNothing(t) == t
Cancel(t) == IF Running(t) THEN "cancelled" ELSE t

\* asyncio.wait returns once a task is done; the tasks still pending then
\* are cancelled
WaitReturn ==
  /\ runPc = "relaying"
  /\ Ended(b2g) \/ Ended(g2b)
  /\ b2g' = Cancel(b2g)
  /\ g2b' = Cancel(g2b)
  /\ gOps' = <<>>
  /\ runPc' = "exiting"
  /\ UNCHANGED <<menuFile, endpoints, listed, connectCalls, menu_text, upConn,
                 cliConn, cRecv, uRecv, logs, closeCalls, upCloseCalls>>

\* leaving the connection context closes the upstream connection; no
\* exception is pending, so run returns without entering the except clause
ExitContext ==
  /\ runPc = "exiting"
  /\ upConn' = "closed"
  /\ upCloseCalls' = upCloseCalls + 1
  /\ runPc' = "done"
  /\ UNCHANGED <<menuFile, endpoints, listed, connectCalls, menu_text, cliConn,
                 b2g, g2b, gOps, cRecv, uRecv, logs, closeCalls>>

\* as SessionExcept, connecting once more after the failure
SessionExceptRetries ==
  /\ runPc = "except"
  /\ closeCalls' = closeCalls + 1
  /\ cliConn' = "closed"
  /\ runPc' = IF connectCalls < 2 THEN "connect" ELSE "done"
  /\ UNCHANGED <<menuFile, endpoints, listed, connectCalls, menu_text, upConn,
                 b2g, g2b, gOps, cRecv, uRecv, logs, upCloseCalls>>

\* except Exception: log and close the client channel
SessionExcept ==
  /\ runPc = "except"
  /\ closeCalls' = closeCalls + 1
  /\ cliConn' = "closed"
  /\ runPc' = "done"
  /\ UNCHANGED <<menuFile, endpoints, listed, connectCalls, menu_text, upConn,
                 b2g, g2b, gOps, cRecv, uRecv, logs, upCloseCalls>>

\* ------------------------------------------------------------- save_order
\* as save_order_raises, without the except clause
save_order_propagates(saved) == ~saved

\* the try/except of save_order catches every failure of the sink: nothing
\* reaches the caller, whether the row was committed or not
save_order_raises(saved) == FALSE

\* the row save_order adds
NewOrder(item, quantity, price) ==
  [item |-> item, quantity |-> quantity, price |-> price, status |-> "pending"]

\* --------------------------------------------------------- the two tasks
\* as Reraise, swallowing the exception: the loop goes on with the next frame
Swallow == "running"
\* except Exception: log and raise again, so the task ends with the exception
Reraise == "failed"

\* as IsAudio, taking a frame without a type for audio
IsAudioOrUntyped(data) == data.type \in {"audio", "none"}
\* data.get("type") == "audio"
IsAudio(data) == data.type = "audio"

\* one turn of the loop of browser_to_gemini: take the next text frame,
\* decode it and, for an audio frame, call send on the upstream connection;
\* frames the client sent before it disconnected are still delivered
B2GRecv ==
  /\ Running(b2g)
  /\ cliConn \in {"open", "disconnected"}
  /\ Len(cRecv) + Len(uRecv) < MaxFrames
  /\ \E message \in ClientFrames :
       /\ cRecv' = Append(cRecv, message)
       /\ IF ~message.json
            THEN b2g' = Reraise /\ upLog' = upLog
            ELSE IF IsAudio(message)
                   THEN IF message.audio.t = "absent"
                          THEN b2g' = Reraise /\ upLog' = upLog
                          ELSE /\ upLog' = Append(upLog,
                                     [msg |-> RealtimeInputMsg(message.audio),
                                      ok |-> upConn = "open", by |-> "b2g",
                                      src |-> Len(cRecv) + 1, i |-> 0])
                               /\ b2g' = IF upConn = "open" THEN b2g ELSE Reraise
                   ELSE b2g' = b2g /\ upLog' = upLog
  /\ UNCHANGED <<runPc, menuFile, endpoints, listed, connectCalls, menu_text,
                 upConn, cliConn, g2b, gOps, uRecv, cliLog, saveLog, orders,
                 closeCalls, upCloseCalls>>

\* as B2GEnd, telling the client that the loop has ended
B2GEndNotifies ==
  /\ Running(b2g)
  /\ cliConn = "disconnected"
  /\ b2g' = "done"
  /\ cliLog' = Append(cliLog, [msg |-> ClientAudioMsg(Absent), ok |-> FALSE,
                               src |-> 0, i |-> 0])
  /\ UNCHANGED <<runPc, menuFile, endpoints, listed, connectCalls, menu_text,
                 upConn, cliConn, g2b, gOps, cRecv, uRecv, upLog, saveLog,
                 orders, closeCalls, upCloseCalls>>

\* iter_text ends without an exception when the client has disconnected
B2GEnd ==
  /\ Running(b2g)
  /\ cliConn = "disconnected"
  /\ b2g' = "done"
  /\ UNCHANGED <<runPc, menuFile, endpoints, listed, connectCalls, menu_text,
                 upConn, cliConn, g2b, gOps, cRecv, uRecv, logs, closeCalls,
                 upCloseCalls>>

\* gemini_to_browser performs the first of ops for the frame number src and
\* suspends in its send, or ends with the exception
G2BDo(ops, src) ==
  LET op == Head(ops)
  IN CASE op.k = "order" ->
            \E saved \in BOOLEAN :
              /\ saveLog' = Append(saveLog,
                     [item |-> op.item, quantity |-> op.quantity, price |-> op.price,
                      id |-> op.id, ok |-> saved, src |-> src, i |-> op.i])
              /\ orders' = IF saved
                             THEN Append(orders, NewOrder(op.item, op.quantity, op.price))
                             ELSE orders
              /\ cliLog' = cliLog
              /\ IF save_order_raises(saved)
                   THEN g2b' = Reraise /\ gOps' = <<>> /\ upLog' = upLog
                   ELSE /\ upLog' = Append(upLog,
                              [msg |-> ToolResponseMsg(op.id), ok |-> upConn = "open",
                               by |-> "g2b", src |-> src, i |-> op.i])
                        /\ IF upConn = "open"
                             THEN g2b' = g2b /\ gOps' = Tail(ops)
                             ELSE g2b' = Reraise /\ gOps' = <<>>
       [] op.k = "audio" ->
            /\ cliLog' = Append(cliLog,
                   [msg |-> ClientAudioMsg(op.data), ok |-> cliConn = "open",
                    src |-> src, i |-> op.i])
            /\ IF cliConn = "open"
                 THEN g2b' = g2b /\ gOps' = Tail(ops)
                 ELSE g2b' = Reraise /\ gOps' = <<>>
            /\ UNCHANGED <<upLog, saveLog, orders>>
       [] OTHER ->
            /\ g2b' = Reraise
            /\ gOps' = <<>>
            /\ UNCHANGED <<upLog, cliLog, saveLog, orders>>

\* one turn of the loop of gemini_to_browser: take the next frame, decode
\* it and run to the first send it causes; frames that arrived before the
\* connection was closed or lost are still delivered
G2BRecv ==
  /\ Running(g2b)
  /\ gOps = <<>>
  /\ upConn \in {"open", "closedOK", "dropped"}
  /\ Len(cRecv) + Len(uRecv) < MaxFrames
  /\ \E msg \in UpFrames :
       /\ uRecv' = Append(uRecv, msg)
       /\ IF ~msg.json
            THEN g2b' = Reraise /\ gOps' = <<>> /\ UNCHANGED logs
            ELSE IF FrameOps(msg) = <<>>
                   THEN UNCHANGED <<g2b, gOps, logs>>
                   ELSE G2BDo(FrameOps(msg), Len(uRecv) + 1)
  /\ UNCHANGED <<runPc, menuFile, endpoints, listed, connectCalls, menu_text,
                 upConn, cliConn, b2g, cRecv, closeCalls, upCloseCalls>>

\* the send has returned: go on with the rest of the current frame
G2BContinue ==
  /\ Running(g2b)
  /\ gOps # <<>>
  /\ G2BDo(gOps, Len(uRecv))
  /\ UNCHANGED <<runPc, menuFile, endpoints, listed, connectCalls, menu_text,
                 upConn, cliConn, b2g, cRecv, uRecv, closeCalls, upCloseCalls>>

\* the iteration over the upstream connection ends when the remote has
\* closed it, and raises when the connection was lost
G2BEnd ==
  /\ Running(g2b)
  /\ gOps = <<>>
  /\ upConn \in {"closedOK", "dropped"}
  /\ g2b' = IF upConn = "closedOK" THEN "done" ELSE Reraise
  /\ UNCHANGED <<runPc, menuFile, endpoints, listed, connectCalls, menu_text,
                 upConn, cliConn, b2g, gOps, cRecv, uRecv, logs, closeCalls,
                 upCloseCalls>>

\* ------------------------------------------------------------ environment
ClientDisconnect ==
  /\ runPc # "done"
  /\ cliConn = "open"
  /\ cliConn' = "disconnected"
  /\ UNCHANGED <<runPc, menuFile, endpoints, listed, connectCalls, menu_text,
                 upConn, b2g, g2b, gOps, cRecv, uRecv, logs, closeCalls,
                 upCloseCalls>>

UpstreamClose ==
  /\ upConn = "open"
  /\ upConn' = "closedOK"
  /\ UNCHANGED <<runPc, menuFile, endpoints, listed, connectCalls, menu_text,
                 cliConn, b2g, g2b, gOps, cRecv, uRecv, logs, closeCalls,
                 upCloseCalls>>

UpstreamDrop ==
  /\ upConn = "open"
  /\ upConn' = "dropped"
  /\ UNCHANGED <<runPc, menuFile, endpoints, listed, connectCalls, menu_text,
                 cliConn, b2g, g2b, gOps, cRecv, uRecv, logs, closeCalls,
                 upCloseCalls>>

\* --------------------------------------------------------------- get_orders
Reverse(seq) == [k \in 1..Len(seq) |-> seq[Len(seq) + 1 - k]]

\* as get_orders, deleting the rows it has listed
get_orders_and_clear ==
  /\ listed' = Reverse(orders)
  /\ orders' = <<>>
  /\ UNCHANGED <<runPc, menuFile, endpoints, connectCalls, menu_text, upConn,
                 cliConn, b2g, g2b, gOps, cRecv, uRecv, upLog, cliLog, saveLog,
                 closeCalls, upCloseCalls>>

\* GET /orders: the rows, newest first; the table is only read
get_orders ==
  /\ listed' = Reverse(orders)
  /\ UNCHANGED <<runPc, menuFile, endpoints, connectCalls, menu_text, upConn,
                 cliConn, b2g, g2b, gOps, cRecv, uRecv, logs, closeCalls,
                 upCloseCalls>>

Next ==
  \/ LoadMenu
  \/ Connect
  \/ SendSetup
  \/ WaitReturn
  \/ ExitContext
  \/ SessionExcept
  \/ B2GRecv
  \/ B2GEnd
  \/ G2BRecv
  \/ G2BContinue
  \/ G2BEnd
  \/ ClientDisconnect
  \/ UpstreamClose
  \/ UpstreamDrop

Spec == Init /\ [][Next]_vars

\* the session together with the HTTP endpoint that lists the orders
ApiNext == Next \/ get_orders

ApiSpec == Init /\ [][ApiNext]_vars

\* ------------------------------------------------- sessions side by side
\* as self_ws, with the connection kept in one place for all sessions (a
\* module-level or class attribute): the connection opened last
shared_ws(s) == Len(opened)

\* self.ws: an attribute of the chatbot of the session
self_ws(s) == ws[s]

\* websocket_endpoint: accept, a new GeminiChatbot, and run keeps the
\* client channel in self.client_ws
websocket_endpoint(s) ==
  /\ sPc[s] = "idle"
  /\ sPc' = [sPc EXCEPT ![s] = "run"]
  /\ client_ws' = [client_ws EXCEPT ![s] = s]
  /\ UNCHANGED <<single, ws, opened, closedUp, closedCli, upSent, cliSent>>

\* run connects and keeps the connection in self.ws; when connect raises
\* the except clause closes the client channel
SessionConnect(s) ==
  /\ sPc[s] = "run"
  /\ \E connected \in BOOLEAN :
       IF connected
         THEN /\ opened' = Append(opened, s)
              /\ ws' = [ws EXCEPT ![s] = Len(opened) + 1]
              /\ sPc' = [sPc EXCEPT ![s] = "relaying"]
              /\ closedCli' = closedCli
         ELSE /\ sPc' = [sPc EXCEPT ![s] = "done"]
              /\ closedCli' = closedCli \cup {client_ws[s]}
              /\ UNCHANGED <<opened, ws>>
  /\ UNCHANGED <<single, client_ws, closedUp, upSent, cliSent>>

\* browser_to_gemini of session s: an audio frame from self.client_ws is
\* sent on self.ws
SessionB2G(s) ==
  /\ sPc[s] = "relaying"
  /\ Len(upSent) + Len(cliSent) < MaxRelayed
  /\ upSent' = Append(upSent, [conn |-> self_ws(s), by |-> s, kind |-> "realtimeInput",
                               from |-> client_ws[s]])
  /\ UNCHANGED <<single, sPc, client_ws, ws, opened, closedUp, closedCli,
                 cliSent>>

\* gemini_to_browser of session s: a frame taken from self.ws is answered
\* on self.ws (a tool call) or passed on to self.client_ws (audio)
SessionG2B(s) ==
  /\ sPc[s] = "relaying"
  /\ Len(upSent) + Len(cliSent) < MaxRelayed
  /\ \E toolCall \in BOOLEAN :
       IF toolCall
         THEN /\ upSent' = Append(upSent, [conn |-> self_ws(s), by |-> s,
                                           kind |-> "toolResponse", from |-> self_ws(s)])
              /\ cliSent' = cliSent
         ELSE /\ cliSent' = Append(cliSent, [chan |-> client_ws[s], by |-> s,
                                             from |-> self_ws(s)])
              /\ upSent' = upSent
  /\ UNCHANGED <<single, sPc, client_ws, ws, opened, closedUp, closedCli>>

\* a loop of session s has ended: its tasks are cancelled and leaving the
\* connection context closes the connection
SessionEnd(s) ==
  /\ sPc[s] = "relaying"
  /\ sPc' = [sPc EXCEPT ![s] = "done"]
  /\ closedUp' = closedUp \cup {self_ws(s)}
  /\ UNCHANGED <<single, client_ws, ws, opened, closedCli, upSent, cliSent>>

IsoNext ==
  \E s \in Sessions :
    \/ websocket_endpoint(s)
    \/ SessionConnect(s)
    \/ SessionB2G(s)
    \/ SessionG2B(s)
    \/ SessionEnd(s)

IsoSpec == Init /\ [][IsoNext]_vars

\* the event loop runs every ready callback in turn, so run goes on once
\* asyncio.wait can return and once the connection context can be left
FairSpec ==
  Spec /\ WF_vars(WaitReturn) /\ WF_vars(ExitContext) /\ WF_vars(SessionExcept)

\* ------------------------------------------------------------------ claims
OkSends(log) == SelectSeq(log, LAMBDA e : e.ok)

\* C1: once either forwarding loop has ended (end of its input or an
\* exception), no further frame is sent upstream, no further frame is sent
\* to the client and no further order is saved.
C1_NoForwardingAfterLoopEnd ==
  [][(Ended(b2g) \/ Ended(g2b))
       => /\ OkSends(upLog)' = OkSends(upLog)
          /\ OkSends(cliLog)' = OkSends(cliLog)
          /\ saveLog' = saveLog
          /\ orders' = orders]_vars

\* C2: when the session is over the relay has closed the client channel
\* exactly once, whichever way the session ended.
C2_ClientClosedOnce == runPc = "done" => closeCalls = 1

\* C3: if one loop has ended while the other is waiting for its next frame,
\* then eventually the other loop is stopped by the cancellation (unless it
\* ended by itself first) and the upstream connection is closed; every
\* session that was relaying and had one loop end reaches the end of run
\* with the upstream connection closed and no loop running.
SessionClosed ==
  /\ runPc = "done"
  /\ upConn = "closed"
  /\ ~Running(b2g)
  /\ ~Running(g2b)

ValidOrderCall(fc) ==
  /\ fc.name = "place_order"
  /\ fc.args.item.t # "absent"
  /\ PyInt(fc.args.quantity).ok
  /\ PyFloat(fc.args.price).ok

SavesFor(n, i) == Len(SelectSeq(saveLog, LAMBDA e : e.src = n /\ e.i = i))

ResponsesFor(n, i, id) ==
  Len(SelectSeq(upLog, LAMBDA e : /\ e.by = "g2b" /\ e.src = n /\ e.i = i
                                  /\ e.msg.kind = "toolResponse" /\ e.msg.id = id))

\* gemini_to_browser has gone past that call
CallDone(n, i) ==
  \/ n < Len(uRecv)
  \/ /\ n = Len(uRecv)
     /\ Running(g2b)
     /\ \A k \in 1..Len(gOps) : gOps[k].stage = "part" \/ gOps[k].i > i

\* gemini_to_browser has gone through the whole n-th frame
FrameDone(n) ==
  \/ n < Len(uRecv)
  \/ n = Len(uRecv) /\ Running(g2b) /\ gOps = <<>>

\* C4: for every place_order call with valid args in a tool-call frame, once
\* the inbound loop has gone past the call there has been exactly one
\* save_order call and exactly one tool-response send for it, whether the
\* save succeeded or failed; there is never more than one of either, and
\* never one without the other.
C4_OneSaveOneResponse ==
  \A n \in 1..Len(uRecv) :
    (uRecv[n].json /\ uRecv[n].hasToolCall) =>
      \A i \in 1..Len(uRecv[n].functionCalls) :
        LET fc == uRecv[n].functionCalls[i]
        IN ValidOrderCall(fc) =>
             /\ SavesFor(n, i) <= 1
             /\ ResponsesFor(n, i, fc.id) = SavesFor(n, i)
             /\ CallDone(n, i) => SavesFor(n, i) = 1

C4_Witness ==
  /\ Running(g2b)
  /\ gOps = <<>>
  /\ \E k \in 1..Len(saveLog) :
       /\ ~saveLog[k].ok
       /\ CallDone(saveLog[k].src, saveLog[k].i)
       /\ ResponsesFor(saveLog[k].src, saveLog[k].i, saveLog[k].id) = 1

\* C5: the send calls browser_to_gemini makes on the upstream connection
\* are, one for one and in the same order, the audio frames it took from the
\* client: each is a realtimeInput frame with one media chunk of mimeType
\* audio/pcm carrying that frame's payload.
ValidAudio(m) == m.json /\ m.type = "audio" /\ m.audio.t # "absent"
AudioIn == SelectSeq(cRecv, ValidAudio)
RealtimeOut == SelectSeq(upLog, LAMBDA e : e.by = "b2g" \/ e.msg.kind = "realtimeInput")

C5_AudioForwardedInOrder ==
  /\ Len(RealtimeOut) = Len(AudioIn)
  /\ \A k \in 1..Len(RealtimeOut) :
       LET m == RealtimeOut[k].msg
       IN /\ m.kind = "realtimeInput"
          /\ Len(m.chunks) = 1
          /\ m.chunks[1].mimeType = "audio/pcm"
          /\ m.chunks[1].data = AudioIn[k].audio

C5_Witness ==
  /\ Len(AudioIn) = 2
  /\ AudioIn[1].audio # AudioIn[2].audio
  /\ Len(RealtimeOut) = 2
  /\ RealtimeOut[1].ok
  /\ RealtimeOut[2].ok
  /\ runPc = "relaying"

\* C6: for every server-content frame, the audio frames sent to the client
\* for it carry the payloads of its inline-data parts, verbatim and in part
\* order; once the inbound loop has gone through the frame there are exactly
\* as many as inline-data parts; parts without inline data and frames
\* without server content produce none.
InlineParts(parts) == SelectSeq(parts, LAMBDA part : part.inline)
ClientSendsFor(n) == SelectSeq(cliLog, LAMBDA e : e.src = n)

C6_OneClientFramePerInlinePart ==
  /\ \A k \in 1..Len(cliLog) : cliLog[k].src \in 1..Len(uRecv)
  /\ \A n \in 1..Len(uRecv) :
       LET f == uRecv[n]
           expected == IF f.json /\ f.hasServerContent THEN InlineParts(f.parts) ELSE <<>>
           got == ClientSendsFor(n)
       IN /\ Len(got) <= Len(expected)
          /\ \A k \in 1..Len(got) :
               got[k].msg.type = "audio" /\ got[k].msg.data = expected[k].data
          /\ FrameDone(n) => Len(got) = Len(expected)

C6_Witness ==
  \E n \in 1..Len(uRecv) :
    /\ FrameDone(n)
    /\ Len(uRecv[n].parts) = 3
    /\ Len(ClientSendsFor(n)) = 2
    /\ ClientSendsFor(n)[1].msg.data # ClientSendsFor(n)[2].msg.data

\* C7: after a failed connect run is in its except clause or over: neither
\* task was started, nothing was sent upstream, no order was saved, and
\* when run is over the client channel has been closed.
ConnectFailed == upConn = "none" /\ runPc \notin {"menu", "connect"}

C7_ConnectFailureNeverRelays ==
  ConnectFailed =>
    /\ runPc \in {"except", "done"}
    /\ b2g = "notstarted"
    /\ g2b = "notstarted"
    /\ upLog = <<>>
    /\ cliLog = <<>>
    /\ saveLog = <<>>
    /\ orders = <<>>
    /\ upCloseCalls = 0
    /\ runPc = "done" => closeCalls = 1 /\ cliConn = "closed"

C7_Witness == ConnectFailed /\ runPc = "done" /\ cliConn = "closed"

\* C8: a step in which save_order fails also makes the tool-response send
\* for that call and, unless that send fails, leaves the inbound loop
\* running and the session relaying.
SaveFailsInStep ==
  /\ Len(saveLog') = Len(saveLog) + 1
  /\ ~saveLog'[Len(saveLog')].ok

C8_SaveFailureNotFatal ==
  [][SaveFailsInStep =>
       /\ orders' = orders
       /\ Len(upLog') = Len(upLog) + 1
       /\ LET r == upLog'[Len(upLog')]
          IN /\ r.msg.kind = "toolResponse"
             /\ r.msg.name = "place_order"
             /\ r.msg.status = "success"
             /\ r.msg.id = saveLog'[Len(saveLog')].id
             /\ r.ok = (upConn = "open")
       /\ upConn = "open" => g2b' = "running" /\ runPc' = "relaying"]_vars

\* a save failed on the first frame and the second frame was handled too
C8_Witness ==
  /\ Len(uRecv) = 2
  /\ Running(g2b)
  /\ runPc = "relaying"
  /\ \E k \in 1..Len(saveLog) : ~saveLog[k].ok /\ saveLog[k].src = 1
  /\ \/ \E k \in 1..Len(cliLog) : cliLog[k].src = 2 /\ cliLog[k].ok
     \/ \E k \in 1..Len(saveLog) : saveLog[k].src = 2

\* C9: a step in which handling a frame raises (text that is not JSON, an
\* audio frame without "audio", a place_order call with missing or
\* unconvertible args, a failed send) ends that loop with the exception; an
\* ended loop takes no later frame and does nothing more; and the other loop
\* is then stopped by the cancellation (unless it ended by itself first).
SentBy(who) == SelectSeq(upLog, LAMBDA e : e.by = who)

B2GRaisesInStep ==
  \/ /\ Len(cRecv') = Len(cRecv) + 1
     /\ LET m == cRecv'[Len(cRecv')]
        IN ~m.json \/ (m.type = "audio" /\ m.audio.t = "absent")
  \/ /\ Len(upLog') = Len(upLog) + 1
     /\ upLog'[Len(upLog')].by = "b2g"
     /\ ~upLog'[Len(upLog')].ok

G2BRaisesInStep ==
  \/ /\ Len(uRecv') = Len(uRecv) + 1
     /\ LET f == uRecv'[Len(uRecv')]
        IN \/ ~f.json
           \/ f.hasToolCall /\ \E i \in 1..Len(f.functionCalls) :
                /\ f.functionCalls[i].name = "place_order"
                /\ ~ValidOrderCall(f.functionCalls[i])
                /\ \A j \in 1..(i - 1) : f.functionCalls[j].name # "place_order"
  \/ /\ Running(g2b) /\ runPc' = runPc /\ gOps # <<>> /\ gOps' # gOps
     /\ Head(gOps).k = "raise"
  \/ /\ Len(upLog') = Len(upLog) + 1
     /\ upLog'[Len(upLog')].by = "g2b"
     /\ ~upLog'[Len(upLog')].ok
  \/ /\ Len(cliLog') = Len(cliLog) + 1
     /\ ~cliLog'[Len(cliLog')].ok

C9_ExceptionEndsLoop ==
  /\ [][/\ B2GRaisesInStep => b2g' = "failed"
        /\ G2BRaisesInStep => g2b' = "failed"
        /\ b2g = "failed" =>
             b2g' = "failed" /\ cRecv' = cRecv /\ SentBy("b2g")' = SentBy("b2g")
        /\ g2b = "failed" =>
             /\ g2b' = "failed" /\ uRecv' = uRecv /\ gOps' = <<>>
             /\ SentBy("g2b")' = SentBy("g2b")
             /\ cliLog' = cliLog /\ saveLog' = saveLog /\ orders' = orders]_vars
  /\ (runPc = "relaying" /\ (b2g = "failed" \/ g2b = "failed"))
       ~> (~Running(b2g) /\ ~Running(g2b) /\ runPc # "relaying")

C9_Witness ==
  /\ runPc = "done"
  /\ \/ /\ b2g = "failed" /\ g2b = "cancelled"
        /\ Len(cRecv) = 1 /\ cRecv[1].json /\ cRecv[1].type = "audio"
        /\ upLog[Len(upLog)].by = "run"
     \/ /\ g2b = "failed" /\ b2g = "cancelled"
        /\ Len(uRecv) = 1 /\ uRecv[1].json /\ saveLog = <<>> /\ cliLog = <<>>
        /\ upLog[Len(upLog)].ok

\* C10: a step in which the outbound loop takes a well-formed frame whose
\* type is not "audio", or that has no type, sends nothing upstream and
\* leaves the loop running and the session relaying.
TakesNonAudioInStep ==
  /\ Len(cRecv') = Len(cRecv) + 1
  /\ cRecv'[Len(cRecv')].json
  /\ cRecv'[Len(cRecv')].type # "audio"

C10_NonAudioDropped ==
  [][TakesNonAudioInStep =>
       /\ upLog' = upLog
       /\ b2g' = "running"
       /\ runPc' = "relaying"
       /\ UNCHANGED <<g2b, cliLog, saveLog, orders, closeCalls, upConn, cliConn>>]_vars

\* a frame without audio type was dropped and the audio frame after it forwarded
C10_Witness ==
  /\ Len(cRecv) = 2
  /\ cRecv[1].json
  /\ cRecv[1].type # "audio"
  /\ ValidAudio(cRecv[2])
  /\ Running(b2g)
  /\ Len(RealtimeOut) = 1
  /\ RealtimeOut[1].ok
  /\ RealtimeOut[1].src = 2


\* C11: every tool-response frame sent upstream answers a place_order call
\* of a frame taken from upstream before: it carries that call's id, the
\* name place_order and the status success; the save for that call has been
\* attempted, and saves and responses follow the calls in the order of the
\* frames and of functionCalls.
ToolResponses == SelectSeq(upLog, LAMBDA e : e.msg.kind = "toolResponse")

CallBefore(a, b) == a.src < b.src \/ (a.src = b.src /\ a.i < b.i)

C11_ResponseAnswersSavedCall ==
  /\ Len(ToolResponses) = Len(saveLog)
  /\ \A k \in 1..Len(ToolResponses) :
       LET e == ToolResponses[k]
       IN /\ e.by = "g2b"
          /\ e.src \in 1..Len(uRecv)
          /\ uRecv[e.src].json
          /\ uRecv[e.src].hasToolCall
          /\ e.i \in 1..Len(uRecv[e.src].functionCalls)
          /\ uRecv[e.src].functionCalls[e.i].name = "place_order"
          /\ e.msg.id = uRecv[e.src].functionCalls[e.i].id
          /\ e.msg.name = "place_order"
          /\ e.msg.status = "success"
          /\ saveLog[k].src = e.src
          /\ saveLog[k].i = e.i
          /\ \A j \in 1..(k - 1) : CallBefore(ToolResponses[j], e)

C11_Witness ==
  /\ Len(ToolResponses) = 2
  /\ ToolResponses[1].msg.id # ToolResponses[2].msg.id
  /\ ToolResponses[1].ok
  /\ ToolResponses[2].ok
  /\ ~saveLog[1].ok

Setups == SelectSeq(upLog, LAMBDA e : e.msg.kind = "setup")

\* C12 as stated: every session that has returned has sent exactly one setup
\* frame.
C12_ExactlyOneSetupEverySession == runPc = "done" => Len(Setups) = 1

\* C12: at most one setup frame is ever sent and it is the first send on
\* the upstream connection, before any realtimeInput or toolResponse; once
\* run is past the setup send of a connected session there is exactly one;
\* the forwarding tasks exist only after the setup send has returned.
TasksCreated == b2g # "notstarted" \/ g2b # "notstarted"

C12_OneSetupFirst ==
  /\ Len(Setups) <= 1
  /\ upLog # <<>> => upLog[1].msg.kind = "setup" /\ upLog[1].by = "run"
  /\ runPc \in {"menu", "connect", "setup"} => upLog = <<>> /\ ~TasksCreated
  /\ upConn # "none" /\ runPc \notin {"menu", "connect", "setup"} => Len(Setups) = 1
  /\ TasksCreated \/ runPc \in {"relaying", "exiting"} =>
       Len(Setups) = 1 /\ upLog[1].ok

C12_Witness ==
  /\ runPc = "relaying"
  /\ Len(upLog) = 3
  /\ upLog[1].msg.kind = "setup"
  /\ \E k \in 2..3 : upLog[k].msg.kind = "realtimeInput" /\ upLog[k].ok
  /\ \E k \in 2..3 : upLog[k].msg.kind = "toolResponse" /\ upLog[k].ok

\* C13: every stored order has a positive quantity and a non-negative price.
C13_StoredOrdersInRange ==
  \A k \in 1..Len(orders) : orders[k].quantity > 0 /\ orders[k].price >= 0

\* C14: the order store only grows, by one row with status pending, in a
\* step of gemini_to_browser that interprets a place_order call and whose
\* save succeeds; the row holds that call's converted arguments; every other
\* step, listing the orders included, leaves the store as it is.
IsPrefix(a, b) == Len(a) <= Len(b) /\ SubSeq(b, 1, Len(a)) = a

PlaceOrderStep ==
  /\ Running(g2b)
  /\ Len(saveLog') = Len(saveLog) + 1
  /\ LET e == saveLog'[Len(saveLog')]
         row == orders'[Len(orders')]
     IN /\ e.ok
        /\ uRecv'[e.src].functionCalls[e.i].name = "place_order"
        /\ row.item = e.item
        /\ row.quantity = e.quantity
        /\ row.price = e.price
        /\ row.status = "pending"

C14_StoreAppendOnly ==
  [][/\ IsPrefix(orders, orders')
     /\ Len(orders') <= Len(orders) + 1
     /\ orders' # orders => PlaceOrderStep
     /\ listed' # listed => orders' = orders
     /\ runPc' # runPc => orders' = orders
     /\ upLog' # upLog /\ saveLog' = saveLog => orders' = orders]_vars

C14_Witness ==
  /\ Len(orders) = 2
  /\ Len(listed) = 2
  /\ listed[1] = orders[2]
  /\ listed[2] = orders[1]
  /\ listed[1] # listed[2]
  /\ runPc = "done"

\* C15: when menu.json is absent or cannot be parsed, the menu text of the
\* setup frame is the placeholder "Menu not available."; the step that loads
\* the menu always goes on to connect, closes nothing and sends nothing.
MenuUnavailable == menuFile \in {"absent", "corrupt"}

C15_MenuFailureNotFatal ==
  /\ [](MenuUnavailable =>
          /\ runPc # "menu" => menu_text = "Menu not available."
          /\ \A k \in 1..Len(upLog) :
               upLog[k].msg.kind = "setup" =>
                 upLog[k].msg.menu = "Menu not available.")
  /\ [][runPc = "menu" /\ runPc' # "menu" =>
          /\ runPc' = "connect"
          /\ cliConn' = cliConn
          /\ closeCalls' = 0
          /\ upLog' = <<>>
          /\ ~Running(b2g') /\ ~Running(g2b')]_vars

C15_Witness ==
  /\ menuFile = "corrupt"
  /\ runPc = "relaying"
  /\ Len(upLog) = 2
  /\ upLog[1].msg.kind = "setup"
  /\ upLog[1].msg.menu = "Menu not available."
  /\ upLog[1].ok
  /\ upLog[2].msg.kind = "realtimeInput"
  /\ upLog[2].ok
  /\ cliLog # <<>>

\* C16: websockets.connect is called at most once in a session, whatever
\* fails afterwards; a connection that was opened is closed by its context
\* exactly once, when run leaves it, and is closed when run has returned; a
\* session whose connect failed closes nothing.
Opened == upConn # "none"

C16_OneUpstreamConnection ==
  /\ connectCalls <= 1
  /\ runPc \notin {"menu", "connect"} => connectCalls = 1
  /\ upCloseCalls <= 1
  /\ ~Opened => upCloseCalls = 0
  /\ upCloseCalls = 1 => runPc \in {"except", "done"} /\ upConn = "closed"
  /\ runPc = "done" /\ Opened => upCloseCalls = 1

C16_Witness ==
  /\ runPc = "done"
  /\ connectCalls = 1
  /\ upCloseCalls = 1
  /\ upConn = "closed"
  /\ \E k \in 1..Len(upLog) : ~upLog[k].ok
  /\ g2b = "failed"

\* C17 as stated: no resource is used by both loops. The upstream
\* connection is used by a loop that sends on it or receives from it, the
\* client channel likewise, the order store by a loop that saves.
UsesUpstream(t) ==
  \/ \E k \in 1..Len(upLog) : upLog[k].by = t
  \/ t = "g2b" /\ uRecv # <<>>
UsesClient(t) ==
  \/ t = "b2g" /\ cRecv # <<>>
  \/ t = "g2b" /\ cliLog # <<>>
UsesStore(t) == t = "g2b" /\ saveLog # <<>>

C17_NoCommonResource ==
  /\ ~(UsesUpstream("b2g") /\ UsesUpstream("g2b"))
  /\ ~(UsesClient("b2g") /\ UsesClient("g2b"))
  /\ ~(UsesStore("b2g") /\ UsesStore("g2b"))

\* C17: the loops share the two connections but each end of them has one
\* owner: only browser_to_gemini receives from the client and it sends only
\* realtimeInput frames upstream; only gemini_to_browser receives from
\* upstream, sends to the client, saves orders and sends toolResponse frames
\* upstream; a step of one loop changes nothing the other loop owns.
C17_EachEndHasOneOwner ==
  /\ [](\A k \in 1..Len(upLog) :
          /\ upLog[k].by = "run" <=> upLog[k].msg.kind = "setup"
          /\ upLog[k].by = "b2g" <=> upLog[k].msg.kind = "realtimeInput"
          /\ upLog[k].by = "g2b" <=> upLog[k].msg.kind = "toolResponse")
  /\ [][/\ cRecv' # cRecv \/ SentBy("b2g")' # SentBy("b2g") =>
             /\ Running(b2g)
             /\ g2b' = g2b /\ gOps' = gOps /\ uRecv' = uRecv
             /\ cliLog' = cliLog /\ saveLog' = saveLog /\ orders' = orders
             /\ SentBy("g2b")' = SentBy("g2b")
        /\ (uRecv' # uRecv \/ cliLog' # cliLog \/ saveLog' # saveLog
              \/ orders' # orders \/ SentBy("g2b")' # SentBy("g2b")) =>
             /\ Running(g2b)
             /\ b2g' = b2g /\ cRecv' = cRecv
             /\ SentBy("b2g")' = SentBy("b2g")]_vars

C17_Witness ==
  /\ \E k \in 1..Len(upLog) : upLog[k].by = "b2g" /\ upLog[k].ok
  /\ \E k \in 1..Len(upLog) : upLog[k].by = "g2b" /\ upLog[k].ok
  /\ orders # <<>>
  /\ Running(b2g)
  /\ Running(g2b)

\* C18: once the inbound loop has gone through a whole frame, the frame has
\* caused one save and one tool response for each place_order call of its
\* toolCall (none without a toolCall) and one client audio frame for each
\* inline-data part of its serverContent (none without serverContent),
\* each count whatever the other shape holds; taking a frame with neither
\* shape changes no log and leaves the loop running.
PlaceOrderCalls(f) ==
  IF f.json /\ f.hasToolCall
    THEN SelectSeq(f.functionCalls, LAMBDA fc : fc.name = "place_order")
    ELSE <<>>
AudioParts(f) ==
  IF f.json /\ f.hasServerContent
    THEN SelectSeq(f.parts, LAMBDA part : part.inline)
    ELSE <<>>
SavesInFrame(n) == Len(SelectSeq(saveLog, LAMBDA e : e.src = n))
ResponsesInFrame(n) ==
  Len(SelectSeq(upLog, LAMBDA e : e.src = n /\ e.msg.kind = "toolResponse"))
ClientFramesInFrame(n) == Len(SelectSeq(cliLog, LAMBDA e : e.src = n))

C18_IndependentExtraction ==
  /\ [](\A n \in 1..Len(uRecv) :
          FrameDone(n) =>
            /\ SavesInFrame(n) = Len(PlaceOrderCalls(uRecv[n]))
            /\ ResponsesInFrame(n) = Len(PlaceOrderCalls(uRecv[n]))
            /\ ClientFramesInFrame(n) = Len(AudioParts(uRecv[n])))
  /\ [][(/\ Len(uRecv') = Len(uRecv) + 1
         /\ uRecv'[Len(uRecv')].json
         /\ ~uRecv'[Len(uRecv')].hasToolCall
         /\ ~uRecv'[Len(uRecv')].hasServerContent) =>
          /\ g2b' = "running"
          /\ gOps' = <<>>
          /\ UNCHANGED <<upLog, cliLog, saveLog, orders>>]_vars

C18_Witness ==
  /\ Len(uRecv) = 2
  /\ uRecv[1].hasToolCall
  /\ uRecv[1].hasServerContent
  /\ SavesInFrame(1) = 1
  /\ ResponsesInFrame(1) = 1
  /\ ClientFramesInFrame(1) = 1
  /\ uRecv[2].json
  /\ ~uRecv[2].hasToolCall
  /\ ~uRecv[2].hasServerContent
  /\ Running(g2b)
  /\ Len(upLog) = 2
  /\ Len(cliLog) = 1

\* C19: a function call whose name is not place_order never has a save or
\* a tool response; a valid place_order call that only such calls precede
\* in its frame is saved and answered in the turn that takes the frame; and
\* that turn ends the loop only if the send of a tool response failed.
OtherNamesBefore(calls, j) == \A i \in 1..(j - 1) : calls[i].name # "place_order"

AnswersFor(n, i) ==
  Len(SelectSeq(upLog, LAMBDA e : e.by = "g2b" /\ e.src = n /\ e.i = i))

C19_OtherFunctionIgnored ==
  /\ [](\A n \in 1..Len(uRecv) :
          (uRecv[n].json /\ uRecv[n].hasToolCall) =>
            \A j \in 1..Len(uRecv[n].functionCalls) :
              LET calls == uRecv[n].functionCalls
              IN /\ calls[j].name # "place_order" =>
                      SavesFor(n, j) = 0 /\ AnswersFor(n, j) = 0
                 /\ (j > 1 /\ OtherNamesBefore(calls, j) /\ ValidOrderCall(calls[j])) =>
                      SavesFor(n, j) = 1 /\ AnswersFor(n, j) = 1)
  /\ [][(/\ Len(uRecv') = Len(uRecv) + 1
         /\ uRecv'[Len(uRecv')].json
         /\ uRecv'[Len(uRecv')].hasToolCall
         /\ uRecv'[Len(uRecv')].functionCalls[1].name # "place_order"
         /\ g2b' # "running") =>
          /\ Len(upLog') = Len(upLog) + 1
          /\ ~upLog'[Len(upLog')].ok]_vars

C19_Witness ==
  /\ Len(uRecv) = 2
  /\ uRecv[1].hasToolCall
  /\ uRecv[1].functionCalls[1].name = "get_menu"
  /\ uRecv[1].functionCalls[2].name = "place_order"
  /\ SavesFor(1, 1) = 0
  /\ SavesFor(1, 2) = 1
  /\ AnswersFor(1, 2) = 1
  /\ Len(orders) = 1
  /\ Running(g2b)
  /\ cliLog # <<>>

\* C20: with several sessions side by side, each has an upstream connection
\* and a client channel of its own; every frame sent upstream goes to the
\* connection opened by the session whose loop sent it and comes from that
\* session's client or connection; every frame sent to a client goes to the
\* channel of the session whose connection it came from; only connections
\* and channels of sessions that have ended are closed, and the end of one
\* session changes nothing of another.
OwnerOf(conn) == IF conn \in 1..Len(opened) THEN opened[conn] ELSE 0

C20_SessionsIsolated ==
  /\ [](/\ \A s, t \in Sessions :
             s # t =>
               /\ ws[s] # 0 => ws[s] # ws[t]
               /\ client_ws[s] # 0 => client_ws[s] # client_ws[t]
        /\ \A s \in Sessions : ws[s] # 0 => OwnerOf(ws[s]) = s
        /\ \A k \in 1..Len(upSent) :
             LET e == upSent[k]
             IN /\ OwnerOf(e.conn) = e.by
                /\ e.kind = "realtimeInput" => e.from = e.by
                /\ e.kind = "toolResponse" => OwnerOf(e.from) = e.by
        /\ \A k \in 1..Len(cliSent) :
             LET e == cliSent[k]
             IN e.chan = e.by /\ OwnerOf(e.from) = e.by
        /\ \A c \in closedUp : OwnerOf(c) # 0 /\ sPc[OwnerOf(c)] = "done"
        /\ \A ch \in closedCli : ch \in Sessions /\ sPc[ch] = "done")
  /\ [][\A s, t \in Sessions :
          (s # t /\ sPc'[s] = "done" /\ sPc[s] # "done") =>
            /\ sPc'[t] = sPc[t]
            /\ ws'[t] = ws[t]
            /\ client_ws'[t] = client_ws[t]
            /\ (ws[t] \in closedUp') = (ws[t] \in closedUp)
            /\ (t \in closedCli') = (t \in closedCli)]_vars

C20_Witness ==
  /\ ws[1] = 2
  /\ ws[2] = 1
  /\ sPc[1] = "done"
  /\ sPc[2] = "relaying"
  /\ closedUp = {2}
  /\ Len(upSent) = 1
  /\ upSent[1].by = 1
  /\ Len(cliSent) = 1
  /\ cliSent[1].by = 2
  /\ cliSent[1].chan = 2

====
